---- MODULE Spec2Model ----
(***************************************************************************)
(* Model of libv2ray_support.go: the ProtectedDialer (preparation of the   *)
(* cached server address, the readiness channel, Dial) and the rotation    *)
(* state machine of a resolved endpoint (NextIP / currentIP).              *)
(*                                                                         *)
(* Time.  The program reads the clock in one place, NextIP's               *)
(* now.Sub(r.lastSwitched) < 5s, so each endpoint carries the whole        *)
(* seconds elapsed since r.lastSwitched, counted up to the window and no   *)
(* further (sinceSwitched).  Tick lets a second pass.                      *)
(*                                                                         *)
(* Shared words read without a lock (d.vServer, d.resolveChan,             *)
(* d.currentServer) are read in a step of their own, so a racing reader    *)
(* gets the value before or after any write.  A call's return is taken at  *)
(* once (Quiet): it touches no shared state, and it is where the call's    *)
(* result can be seen.                                                     *)
(***************************************************************************)
EXTENDS Integers, Sequences, FiniteSets, TLC

(* ------------------------------ bounds -------------------------------- *)
MaxCycles == 1        \* PrepareResolveChan / PrepareDomain cycles of the engine
MaxIPs == 2           \* longest answer of the system resolver in Spec
LkMaxLen == 3         \* longest answer of the system resolver in LookupSpec
MaxFd == 3            \* descriptor numbers the process may hold in FdSpec
MaxPrep == 2          \* channels made / endpoints stored in AnyOrderSpec

(* ------------------------- program constants -------------------------- *)
ThrottleWindow == 5   \* time.Second*5 in NextIP
RetryBound == 10      \* maxRetry := 10 in PrepareDomain
Uint8 == 256          \* ipIdx is a uint8

Dialers == {"d1", "d2"}               \* goroutines calling Dial
Addresses == {"proxy:443", "cdn:80"}   \* host:port strings handed to Dial
Servers == {"proxy:443"}               \* the address the engine prepares
IPv4s == {"4a", "4b"}
IPv6s == {"6a", "6b"}
AllIPs == <<"6a", "4a", "6b", "4b">>
MainIPs == {AllIPs[k] : k \in 1..MaxIPs}   \* addresses the resolver returns in Spec
NilEp == 0            \* d.vServer == nil
NilChan == 0          \* d.resolveChan == nil

\* net.IP.To4() != nil
To4(ip) == ip \in IPv4s

\* net.SplitHostPort + Resolver.LookupPort on the addresses above
PortOf(addr) == IF addr = "proxy:443" THEN 443 ELSE 80
HostOf(addr) == IF addr = "proxy:443" THEN "proxy" ELSE "cdn"

SeqsUpTo(S, n) == UNION {[1..k -> S] : k \in 0..n}
Injective(s) == \A a, b \in DOMAIN s : s[a] = s[b] => a = b
Reverse(s) == [k \in 1..Len(s) |-> s[Len(s) + 1 - k]]
Min(a, b) == IF a < b THEN a ELSE b

(* ----------------------------- lookupAddr ----------------------------- *)
\* mutant of SwapLoop: IPs[i] = IPs[opp]; IPs[opp] = IPs[i], one after the other
RECURSIVE SwapLoopClobber(_, _)
SwapLoopClobber(ips, i) ==
    IF i < 0 THEN ips
    ELSE SwapLoopClobber([ips EXCEPT ![i + 1] = ips[Len(ips) - i]], i - 1)

\* the swap loop of lookupAddr: for i := len/2-1; i >= 0; i-- (0-based i)
RECURSIVE SwapLoop(_, _)
SwapLoop(ips, i) ==
    IF i < 0 THEN ips
    ELSE LET a == i + 1
             opp == Len(ips) - i
         IN  SwapLoop([ips EXCEPT ![a] = ips[opp], ![opp] = ips[a]], i - 1)

\* mutant of MustRevert: the preference read the wrong way round
MustRevertIfPreferred(ips, prefIPv6) ==
    prefIPv6 /\ Len(ips) > 1 /\ ~To4(ips[1]) /\ To4(ips[Len(ips)])

\* the condition of line 143
MustRevert(ips, prefIPv6) ==
    ~prefIPv6 /\ Len(ips) > 1 /\ ~To4(ips[1]) /\ To4(ips[Len(ips)])

\* the ordering policy of lookupAddr (lines 141-149)
OrderIPs(ips, prefIPv6) ==
    IF MustRevert(ips, prefIPv6) THEN SwapLoop(ips, (Len(ips) \div 2) - 1) ELSE ips

\* lookupAddr, lines 129-157: answer is what LookupIPAddr returned (addrs, err)
lookupAddr(addr, prefIPv6, answer) ==
    IF answer.err THEN [ok |-> FALSE]
    ELSE IF Len(answer.addrs) = 0 THEN [ok |-> FALSE]
    ELSE [ok |-> TRUE,
          rs |-> [domain |-> HostOf(addr), IPs |-> OrderIPs(answer.addrs, prefIPv6),
                  Port |-> PortOf(addr), ipIdx |-> 0, ipLock |-> "",
                  sinceSwitched |-> ThrottleWindow]]

\* what Resolver.LookupIPAddr can return over the set S, up to n addresses
Answers(S, n) ==
    {[err |-> TRUE, addrs |-> <<>>]} \cup {[err |-> FALSE, addrs |-> s] : s \in SeqsUpTo(S, n)}

ResolverAnswers == {a \in Answers(MainIPs, MaxIPs) : Injective(a.addrs)}

(* ------------------------------- state -------------------------------- *)
VARIABLES
    currentServer,  \* d.currentServer
    preferIPv6,     \* d.preferIPv6
    resolveChan,    \* d.resolveChan: NilChan or an index into chans
    vServer,        \* d.vServer: NilEp or an index into eps
    eps,            \* the resolved objects PrepareDomain has published
    chans,          \* the channels made so far: closed, and by which exit
    panicked,       \* close of a nil or closed channel aborted the process
    pd,             \* the PrepareDomain call of the engine goroutine
    dial,           \* the Dial call of each dialer goroutine
    hist,           \* per endpoint: seconds since the last NextIP call / advance
    lk,             \* LookupSpec: one application of lookupAddr
    rot,            \* RotSpec: one endpoint and the caller that retries its Dial
    fdTable,        \* FdSpec: the descriptor table of the process
    fdc             \* FdSpec: the getFd / fdConn calls of each dialer goroutine

vars == <<currentServer, preferIPv6, resolveChan, vServer, eps, chans,
          panicked, pd, dial, hist, lk, rot, fdTable, fdc>>

NoFresh == [IPs |-> <<>>, Port |-> 0]

IdleDial == [pc |-> "idle", dest |-> "", branch |-> "", ch |-> NilChan,
             waited |-> FALSE, ip |-> "", r |-> NilEp,
             fresh |-> NoFresh, target |-> <<>>, res |-> "",
             nLookup |-> 0, nSock |-> 0, nProtect |-> 0, nConnect |-> 0,
             nRotate |-> 0]

IdlePD == [pc |-> "idle", domainName |-> "", closeCh |-> FALSE,
           maxRetry |-> 0, deferCh |-> NilChan,
           attempts |-> 0, stored |-> FALSE, fired |-> 0, outcome |-> "none"]

IdleLk == [pc |-> "off", addr |-> "", pref |-> FALSE,
           answer |-> [err |-> TRUE, addrs |-> <<>>], out |-> [ok |-> FALSE]]

\* the parts of the state a specification does not use stay as they are here
NoRot == [pc |-> "off"]
NoFds == fdTable = <<>> /\ fdc = <<>>

\* NewPreotectedDialer: every field but resolver and protectSet is zero
InitDialer ==
    /\ currentServer = ""
    /\ preferIPv6 = FALSE
    /\ resolveChan = NilChan
    /\ vServer = NilEp
    /\ eps = <<>>
    /\ chans = <<>>
    /\ panicked = FALSE
    /\ pd = IdlePD
    /\ dial = [i \in Dialers |-> IdleDial]
    /\ hist = <<>>

Init == InitDialer /\ lk = IdleLk /\ rot = NoRot /\ NoFds

\* no call is at its return
Quiet == pd.pc \notin {"stored", "returned"} /\ \A j \in Dialers : dial[j].pc # "done"
Running == ~panicked /\ Quiet

(* ------------------------------ the clock ----------------------------- *)
Older(t) == Min(t + 1, ThrottleWindow)

Tick ==
    /\ Running
    /\ eps' = [e \in DOMAIN eps |-> [eps[e] EXCEPT !.sinceSwitched = Older(@)]]
    /\ hist' = [e \in DOMAIN hist |-> [call |-> Older(hist[e].call),
                                       adv |-> Older(hist[e].adv)]]
    /\ UNCHANGED <<currentServer, preferIPv6, resolveChan, vServer, chans,
                   panicked, pd, dial, lk, rot, fdTable, fdc>>

(* ------------------------ preparation (engine) ------------------------ *)
\* PrepareResolveChan: d.resolveChan = make(chan struct{})
PrepareResolveChan ==
    /\ Running
    /\ pd.pc = "idle"
    /\ Len(chans) < MaxCycles
    /\ chans' = Append(chans, [closed |-> FALSE, by |-> "none"])
    /\ resolveChan' = Len(chans) + 1
    /\ pd' = [pd EXCEPT !.pc = "armed"]
    /\ UNCHANGED <<currentServer, preferIPv6, vServer, eps, panicked,
                   dial, hist, lk, rot, fdTable, fdc>>

\* PrepareDomain, lines 162-167: the stores, the defer (its argument
\* d.resolveChan is evaluated here) and maxRetry := 10
PD_Begin(domainName, prefIPv6) ==
    /\ Running
    /\ pd.pc = "armed"
    /\ currentServer' = domainName
    /\ preferIPv6' = prefIPv6
    /\ pd' = [IdlePD EXCEPT !.pc = "loop", !.domainName = domainName,
                            !.maxRetry = RetryBound, !.deferCh = resolveChan]
    /\ UNCHANGED <<resolveChan, vServer, eps, chans, panicked, dial, hist, lk, rot, fdTable, fdc>>

\* lines 169-172: maxRetry == 0, return
PD_Exhausted ==
    /\ Running
    /\ pd.pc = "loop"
    /\ pd.maxRetry = 0
    /\ pd' = [pd EXCEPT !.pc = "exit", !.outcome = "exhausted"]
    /\ UNCHANGED <<currentServer, preferIPv6, resolveChan, vServer, eps,
                   chans, panicked, dial, hist, lk, rot, fdTable, fdc>>

\* mutant of Attempted: a failed attempt is not counted against maxRetry
AttemptedUncounted(p, ok) ==
    IF ok THEN [p EXCEPT !.pc = "stored", !.stored = TRUE, !.attempts = @ + 1,
                         !.outcome = "success"]
    ELSE [p EXCEPT !.pc = "select", !.attempts = @ + 1]

\* mutant of Attempted: no return after the store, the loop goes on
AttemptedKeepsOn(p, ok) ==
    IF ok THEN [p EXCEPT !.pc = "loop", !.stored = TRUE, !.attempts = @ + 1,
                         !.outcome = "success"]
    ELSE [p EXCEPT !.pc = "select", !.maxRetry = @ - 1, !.attempts = @ + 1]

\* lines 174-177 and 187: what one resolution attempt does to the call
Attempted(p, ok) ==
    IF ok THEN [p EXCEPT !.pc = "stored", !.stored = TRUE, !.attempts = @ + 1,
                         !.outcome = "success"]
    ELSE [p EXCEPT !.pc = "select", !.maxRetry = @ - 1, !.attempts = @ + 1]

\* lines 174-190: one resolution attempt and what follows it directly
PD_Attempt(answer) ==
    /\ Running
    /\ pd.pc = "loop"
    /\ pd.maxRetry # 0
    /\ LET got == lookupAddr(pd.domainName, preferIPv6, answer)
       IN  /\ pd' = Attempted(pd, got.ok)
           /\ IF got.ok
              THEN /\ eps' = Append(eps, got.rs)
                   /\ hist' = Append(hist, [call |-> ThrottleWindow,
                                            adv |-> ThrottleWindow])
                   /\ vServer' = Len(eps) + 1
              ELSE UNCHANGED <<eps, hist, vServer>>
    /\ UNCHANGED <<currentServer, preferIPv6, resolveChan, chans, panicked,
                   dial, lk, rot, fdTable, fdc>>

\* lines 188-190: the result is logged, return.  The loop is over: its locals
\* (maxRetry, closeCh, the count of attempts) are dead and dropped.
PD_LogResult ==
    /\ ~panicked
    /\ pd.pc = "stored"
    /\ pd' = [pd EXCEPT !.pc = "exit", !.maxRetry = 0, !.closeCh = FALSE,
                        !.attempts = 0]
    /\ UNCHANGED <<currentServer, preferIPv6, resolveChan, vServer, eps,
                   chans, panicked, dial, hist, lk, rot, fdTable, fdc>>

\* mutant of PD_Cancelled: break for return, the loop goes on
PD_CancelledGoesOn ==
    /\ Running
    /\ pd.pc = "select"
    /\ pd.closeCh
    /\ pd' = [pd EXCEPT !.pc = "loop"]
    /\ UNCHANGED <<currentServer, preferIPv6, resolveChan, vServer, eps,
                   chans, panicked, dial, hist, lk, rot, fdTable, fdc>>

\* line 179: case <-closeCh
PD_Cancelled ==
    /\ Running
    /\ pd.pc = "select"
    /\ pd.closeCh
    /\ pd' = [pd EXCEPT !.pc = "exit", !.outcome = "cancelled"]
    /\ UNCHANGED <<currentServer, preferIPv6, resolveChan, vServer, eps,
                   chans, panicked, dial, hist, lk, rot, fdTable, fdc>>

\* line 182: case <-time.After(time.Second * 2), then continue.  The timer is
\* made as the select is entered, so it is ready only after a wait during which
\* closeCh stayed open: a closed closeCh always wins the select.
PD_Timeout ==
    /\ Running
    /\ pd.pc = "select"
    /\ ~pd.closeCh
    /\ pd' = [pd EXCEPT !.pc = "loop"]
    /\ UNCHANGED <<currentServer, preferIPv6, resolveChan, vServer, eps,
                   chans, panicked, dial, hist, lk, rot, fdTable, fdc>>

\* close(c): a nil or closed channel panics
CanClose(c) == c # NilChan /\ ~chans[c].closed

\* mutant of CloseChan: the close is skipped on the cancelled exit
CloseChanUnlessCancelled(cs, c, by) ==
    IF by = "cancelled" THEN cs ELSE [cs EXCEPT ![c] = [closed |-> TRUE, by |-> by]]

\* close(d.resolveChan), line 166; by: the exit PrepareDomain took
CloseChan(cs, c, by) == [cs EXCEPT ![c] = [closed |-> TRUE, by |-> by]]

\* the deferred close(d.resolveChan) of line 166, run as PrepareDomain returns
PD_Close ==
    /\ Running
    /\ pd.pc = "exit"
    /\ IF CanClose(pd.deferCh)
       THEN /\ chans' = CloseChan(chans, pd.deferCh, pd.outcome)
            /\ pd' = [pd EXCEPT !.pc = "returned", !.fired = @ + 1]
            /\ UNCHANGED panicked
       ELSE /\ panicked' = TRUE
            /\ UNCHANGED <<chans, pd>>
    /\ UNCHANGED <<currentServer, preferIPv6, resolveChan, vServer, eps,
                   dial, hist, lk, rot, fdTable, fdc>>

\* PrepareDomain has returned to the engine
PD_Return ==
    /\ ~panicked
    /\ pd.pc = "returned"
    /\ pd' = IdlePD
    /\ UNCHANGED <<currentServer, preferIPv6, resolveChan, vServer, eps,
                   chans, panicked, dial, hist, lk, rot, fdTable, fdc>>

\* the owner of closeCh closes it while PrepareDomain runs
Cancel ==
    /\ Running
    /\ pd.pc \in {"loop", "select"}
    /\ ~pd.closeCh
    /\ pd' = [pd EXCEPT !.closeCh = TRUE]
    /\ UNCHANGED <<currentServer, preferIPv6, resolveChan, vServer, eps,
                   chans, panicked, dial, hist, lk, rot, fdTable, fdc>>

(* --------------------------- resolved endpoint ------------------------ *)
\* currentIP, lines 66-70 ("" is the nil IP)
currentIP(r) == IF Len(r.IPs) > 0 THEN r.IPs[r.ipIdx + 1] ELSE ""

\* mutant of Throttled: the window taken in milliseconds
ThrottledMillis(r) == r.sinceSwitched < 0

\* NextIP, line 45: now.Sub(r.lastSwitched) < time.Second*5
Throttled(r) == r.sinceSwitched < ThrottleWindow

\* NextIP, lines 41-48: whether the call goes on to switch
Switches(r) == Len(r.IPs) > 1 /\ ~Throttled(r)

\* mutant of Advance: r.lastSwitched is not set
AdvanceUnstamped(r) == [r EXCEPT !.ipIdx = (@ + 1) % Uint8]

\* NextIP, lines 49-50: r.lastSwitched = now; r.ipIdx++ (uint8)
Advance(r) == [r EXCEPT !.sinceSwitched = 0, !.ipIdx = (@ + 1) % Uint8]

\* mutant of WrapIdx: > for >=
WrapIdxLate(r) == IF r.ipIdx > Len(r.IPs) % Uint8 THEN [r EXCEPT !.ipIdx = 0] ELSE r

\* NextIP, lines 56-58: if r.ipIdx >= uint8(len(r.IPs)) { r.ipIdx = 0 }
WrapIdx(r) == IF r.ipIdx >= Len(r.IPs) % Uint8 THEN [r EXCEPT !.ipIdx = 0] ELSE r

(* -------------------------------- Dial -------------------------------- *)
\* what fdConn can end in, in the order of its return statements
FdConnOutcomes ==
    {"protect_rejected", "connect_failed", "newfile_invalid", "fileconn_err", "ok"}

\* lines 215-221: Address == d.currentServer
D_Begin(i, dest) ==
    /\ Running
    /\ dial[i].pc = "idle"
    /\ dial' = [dial EXCEPT ![i] =
                  [IdleDial EXCEPT !.dest = dest,
                                   !.branch = IF dest = currentServer THEN "A" ELSE "B",
                                   !.pc = IF dest = currentServer THEN "chk" ELSE "lookup"]]
    /\ UNCHANGED <<currentServer, preferIPv6, resolveChan, vServer, eps,
                   chans, panicked, pd, hist, lk, rot, fdTable, fdc>>

\* getFd as called by Dial (lines 233-236, 255-258): ok is whether unix.Socket
\* gave a descriptor; pc is where Dial goes on with the descriptor
GetFd(d, ok, pc) ==
    IF ok THEN [d EXCEPT !.nSock = @ + 1, !.pc = pc]
    ELSE [d EXCEPT !.pc = "done", !.res = "socket_err"]

\* line 222: if d.vServer == nil; when it is not, line 233
D_CheckServer(i, sockOk) ==
    /\ Running
    /\ dial[i].pc = "chk"
    /\ dial' = [dial EXCEPT ![i] =
                  IF vServer = NilEp THEN [@ EXCEPT !.pc = "recv"]
                  ELSE GetFd(@, sockOk, "cur")]
    /\ UNCHANGED <<currentServer, preferIPv6, resolveChan, vServer, eps,
                   chans, panicked, pd, hist, lk, rot, fdTable, fdc>>

\* line 224: the operand d.resolveChan of the receive is read, the receive begins
D_Recv(i) ==
    /\ Running
    /\ dial[i].pc = "recv"
    /\ dial' = [dial EXCEPT ![i].pc = "blocked", ![i].ch = resolveChan,
                            ![i].waited = TRUE]
    /\ UNCHANGED <<currentServer, preferIPv6, resolveChan, vServer, eps,
                   chans, panicked, pd, hist, lk, rot, fdTable, fdc>>

\* a receive from a nil channel never returns, one from a closed channel does
CanReceive(ch) == ch # NilChan /\ chans[ch].closed

\* mutant of AfterWait: the value of d.vServer from before the wait is used
AfterWaitStale(d, ep, sockOk) == [d EXCEPT !.pc = "done", !.res = "prepare_failed"]

\* mutant of AfterWait: the descriptor is taken before d.vServer is looked at
AfterWaitSocketFirst(d, ep, sockOk) ==
    IF ~sockOk THEN [d EXCEPT !.pc = "done", !.res = "socket_err"]
    ELSE IF ep = NilEp
         THEN [d EXCEPT !.pc = "done", !.res = "prepare_failed", !.nSock = @ + 1]
         ELSE [d EXCEPT !.nSock = @ + 1, !.pc = "cur"]

\* lines 228-230: d.vServer read after the receive
AfterWait(d, ep, sockOk) ==
    IF ep = NilEp THEN [d EXCEPT !.pc = "done", !.res = "prepare_failed"]
    ELSE GetFd(d, sockOk, "cur")

\* lines 224-236: the receive returns, d.vServer is read again, then getFd
D_Wake(i, sockOk) ==
    /\ Running
    /\ dial[i].pc = "blocked"
    /\ CanReceive(dial[i].ch)
    /\ dial' = [dial EXCEPT ![i] = AfterWait(@, vServer, sockOk)]
    /\ UNCHANGED <<currentServer, preferIPv6, resolveChan, vServer, eps,
                   chans, panicked, pd, hist, lk, rot, fdTable, fdc>>

\* line 238: curIP := d.vServer.currentIP(), under r.ipLock
D_CurrentIP(i) ==
    /\ Running
    /\ dial[i].pc = "cur"
    /\ eps[vServer].ipLock = ""
    /\ dial' = [dial EXCEPT ![i].pc = "conn", ![i].ip = currentIP(eps[vServer])]
    /\ UNCHANGED <<currentServer, preferIPv6, resolveChan, vServer, eps,
                   chans, panicked, pd, hist, lk, rot, fdTable, fdc>>

\* line 239: the arguments curIP, d.vServer.Port are read and fdConn is entered
D_Conn(i) ==
    /\ Running
    /\ dial[i].pc = "conn"
    /\ dial' = [dial EXCEPT ![i].pc = "pending",
                            ![i].target = <<dial[i].ip, eps[vServer].Port>>]
    /\ UNCHANGED <<currentServer, preferIPv6, resolveChan, vServer, eps,
                   chans, panicked, pd, hist, lk, rot, fdTable, fdc>>

\* fdConn, lines 265-300: protect, connect, wrap; d.target holds ip and port
FdConn(d, outcome) ==
    [d EXCEPT !.nProtect = @ + 1,
              !.nConnect = IF outcome = "protect_rejected" THEN @ ELSE @ + 1,
              !.res = outcome]

\* mutant of RotatesOn: only a failed connect switches
RotatesOnConnectFailure(d) == d.res = "connect_failed"

\* lines 240-243: if err != nil { d.vServer.NextIP(); return nil, err }
RotatesOn(d) == d.res # "ok"

\* the clock readings of NextIP: line 44 is reached with more than one IP,
\* line 49 when the call switches
Called(h, r) ==
    [call |-> IF Len(r.IPs) > 1 THEN 0 ELSE h.call,
     adv  |-> IF Switches(r) THEN 0 ELSE h.adv]

\* fdConn returns to line 240.  On an error NextIP is entered (lines 38-54):
\* lock, throttle, switch; on success Dial returns the connection.
D_ConnDone(i, outcome) ==
    /\ Running
    /\ dial[i].pc = "pending"
    /\ LET d1 == FdConn(dial[i], outcome)
           r  == eps[vServer]
       IN  IF RotatesOn(d1)
           THEN /\ r.ipLock = ""
                /\ hist' = [hist EXCEPT ![vServer] = Called(@, r)]
                /\ IF Switches(r)
                   THEN /\ eps' = [eps EXCEPT ![vServer] =
                                     [Advance(r) EXCEPT !.ipLock = i]]
                        /\ dial' = [dial EXCEPT ![i] =
                                      [d1 EXCEPT !.pc = "wrap", !.r = vServer,
                                                 !.nRotate = @ + 1]]
                   ELSE /\ dial' = [dial EXCEPT ![i] =
                                      [d1 EXCEPT !.pc = "done", !.nRotate = @ + 1]]
                        /\ UNCHANGED eps
           ELSE /\ dial' = [dial EXCEPT ![i] = [d1 EXCEPT !.pc = "done"]]
                /\ UNCHANGED <<eps, hist>>
    /\ UNCHANGED <<currentServer, preferIPv6, resolveChan, vServer, chans,
                   panicked, pd, lk, rot, fdTable, fdc>>

\* NextIP, lines 56-61: wrap around, unlock (deferred)
D_Wrap(i) ==
    /\ Running
    /\ dial[i].pc = "wrap"
    /\ eps' = [eps EXCEPT ![dial[i].r] = [WrapIdx(@) EXCEPT !.ipLock = ""]]
    /\ dial' = [dial EXCEPT ![i].pc = "done"]
    /\ UNCHANGED <<currentServer, preferIPv6, resolveChan, vServer, chans,
                   panicked, pd, hist, lk, rot, fdTable, fdc>>

\* mutant of FirstOf: the last address of the list
LastOf(fresh) == <<fresh.IPs[Len(fresh.IPs)], fresh.Port>>

\* line 262: the address fdConn is given in branch B
FirstOf(fresh) == <<fresh.IPs[1], fresh.Port>>

\* lines 249-262: branch B: lookupAddr(Address), getFd, fdConn to resolved.IPs[0]
Other(d, prefIPv6, answer, sockOk, outcome) ==
    LET got == lookupAddr(d.dest, prefIPv6, answer)
        d1  == [d EXCEPT !.nLookup = @ + 1]
    IN  IF ~got.ok THEN [d1 EXCEPT !.pc = "done", !.res = "resolve_err"]
        ELSE LET fresh == [IPs |-> got.rs.IPs, Port |-> got.rs.Port]
                 d2 == GetFd([d1 EXCEPT !.fresh = fresh], sockOk, "pending")
             IN  IF d2.pc = "pending"
                 THEN [FdConn([d2 EXCEPT !.target = FirstOf(fresh)], outcome)
                         EXCEPT !.pc = "done"]
                 ELSE d2

D_Other(i, answer, sockOk, outcome) ==
    /\ Running
    /\ dial[i].pc = "lookup"
    /\ dial' = [dial EXCEPT ![i] = Other(@, preferIPv6, answer, sockOk, outcome)]
    /\ UNCHANGED <<currentServer, preferIPv6, resolveChan, vServer, eps,
                   chans, panicked, pd, hist, lk, rot, fdTable, fdc>>

\* Dial has returned; the goroutine may call it again
D_Return(i) ==
    /\ ~panicked
    /\ dial[i].pc = "done"
    /\ dial' = [dial EXCEPT ![i] = IdleDial]
    /\ UNCHANGED <<currentServer, preferIPv6, resolveChan, vServer, eps,
                   chans, panicked, pd, hist, lk, rot, fdTable, fdc>>

(* --------------------------- specification ---------------------------- *)
Next ==
    \/ Tick
    \/ PrepareResolveChan
    \/ \E a \in Servers, p \in BOOLEAN : PD_Begin(a, p)
    \/ PD_Exhausted
    \/ \E ans \in ResolverAnswers : PD_Attempt(ans)
    \/ PD_LogResult
    \/ PD_Cancelled
    \/ PD_Timeout
    \/ PD_Close
    \/ PD_Return
    \/ Cancel
    \/ \E i \in Dialers, a \in Addresses : D_Begin(i, a)
    \/ \E i \in Dialers, ok \in BOOLEAN : D_CheckServer(i, ok)
    \/ \E i \in Dialers : D_Recv(i)
    \/ \E i \in Dialers, ok \in BOOLEAN : D_Wake(i, ok)
    \/ \E i \in Dialers : D_CurrentIP(i)
    \/ \E i \in Dialers : D_Conn(i)
    \/ \E i \in Dialers, o \in FdConnOutcomes : D_ConnDone(i, o)
    \/ \E i \in Dialers : D_Wrap(i)
    \/ \E i \in Dialers, ans \in ResolverAnswers, ok \in BOOLEAN, o \in FdConnOutcomes :
          D_Other(i, ans, ok, o)
    \/ \E i \in Dialers : D_Return(i)

Spec == Init /\ [][Next]_vars

(* ------------------- lookupAddr as a function of its inputs ----------- *)
LkAnswers == Answers(IPv4s \cup IPv6s, LkMaxLen)

LkInit ==
    /\ InitDialer /\ rot = NoRot /\ NoFds
    /\ lk \in {[pc |-> "in", addr |-> a, pref |-> p, answer |-> ans,
                out |-> [ok |-> FALSE]] :
                  a \in Addresses, p \in BOOLEAN, ans \in LkAnswers}

LkApply ==
    /\ lk.pc = "in"
    /\ lk' = [lk EXCEPT !.pc = "out", !.out = lookupAddr(lk.addr, lk.pref, lk.answer)]
    /\ UNCHANGED <<currentServer, preferIPv6, resolveChan, vServer, eps,
                   chans, panicked, pd, dial, hist, rot, fdTable, fdc>>

LkNext == LkApply

LookupSpec == LkInit /\ [][LkNext]_vars

(* --------------- rotation under a caller that retries ----------------- *)
\* the fields of the dialer
dialerVars == <<currentServer, preferIPv6, resolveChan, vServer, eps, chans,
                panicked, pd, dial, hist>>

\* lengths of the resolver's answer: short lists and lists around the range of
\* the uint8 cursor
RotLens == {1, 2, 3, Uint8 - 1, Uint8, Uint8 + 1}

\* the endpoint lookupAddr returns for an answer of n addresses (lines 151-155);
\* address k of the answer is written k
Resolved(n) == [domain |-> "proxy", IPs |-> [k \in 1..n |-> k], Port |-> 443,
                ipIdx |-> 0, ipLock |-> "", sinceSwitched |-> ThrottleWindow]

\* NextIP, lines 37-61, as one locked call
NextIP(r) == IF Switches(r) THEN WrapIdx(Advance(r)) ELSE r

\* an endpoint has just been stored; good is the one address connects succeed
\* to (0: none)
RotInit ==
    /\ InitDialer /\ lk = IdleLk /\ NoFds
    /\ rot \in {[pc |-> "idle", r |-> Resolved(n), good |-> g] :
                  n \in RotLens, g \in {0, 1, 2, 3}}
    /\ rot.good <= Len(rot.r.IPs)

\* a second passes
Rt_Tick ==
    /\ rot.pc # "off"
    /\ rot.r.sinceSwitched < ThrottleWindow
    /\ rot' = [rot EXCEPT !.r.sinceSwitched = Older(@)]
    /\ UNCHANGED <<dialerVars, lk, fdTable, fdc>>

\* Dial, lines 238-239: fdConn to currentIP() succeeds or fails
Rt_Connect ==
    /\ rot.pc = "idle"
    /\ rot' = [rot EXCEPT !.pc = IF currentIP(rot.r) = rot.good
                                 THEN "connected" ELSE "failed"]
    /\ UNCHANGED <<dialerVars, lk, fdTable, fdc>>

\* Dial, lines 240-243: NextIP, the error is returned, and the caller retries
Rt_NextIP ==
    /\ rot.pc = "failed"
    /\ rot' = [rot EXCEPT !.pc = "idle", !.r = NextIP(rot.r)]
    /\ UNCHANGED <<dialerVars, lk, fdTable, fdc>>

RotNext == Rt_Tick \/ Rt_Connect \/ Rt_NextIP

\* time passes, and the caller goes on retrying
RotSpec ==
    /\ RotInit /\ [][RotNext]_vars
    /\ WF_vars(Rt_Tick) /\ WF_vars(Rt_Connect) /\ WF_vars(Rt_NextIP)

(* ------------------ getFd and fdConn, call by call -------------------- *)
\* an unused descriptor number
NoDesc == [open |-> FALSE, owner |-> "", kind |-> ""]

IdleFdc == [pc |-> "idle", fd |-> 0, ops |-> <<>>, protOk |-> FALSE,
            file |-> FALSE, conn |-> 0, res |-> "", hits |-> <<>>]

FdInit ==
    /\ InitDialer /\ lk = IdleLk /\ rot = NoRot
    /\ fdTable = [n \in 1..MaxFd |-> NoDesc]
    /\ fdc = [i \in Dialers |-> IdleFdc]

\* the kernel hands out the lowest free number (0: the table is full)
LowestFree(t) ==
    IF \A n \in DOMAIN t : t[n].open THEN 0
    ELSE CHOOSE n \in DOMAIN t : ~t[n].open /\ \A m \in 1..(n - 1) : t[m].open

\* what a close of number n by dialer i's call meets: the socket getFd gave the
\* call, a descriptor of somebody else, or no descriptor at all (EBADF)
Meets(t, n, i) ==
    IF ~t[n].open THEN "ebadf"
    ELSE IF t[n].owner = i /\ t[n].kind = "sock" THEN "own"
    ELSE "other"

\* close(n)
CloseFd(t, n) == [t EXCEPT ![n] = NoDesc]

\* getFd, lines 194-204: unix.Socket
F_GetFd(i, ok) ==
    /\ fdc[i].pc = "idle"
    /\ LET n == LowestFree(fdTable)
       IN  IF ok /\ n # 0
           THEN /\ fdTable' = [fdTable EXCEPT ![n] =
                                 [open |-> TRUE, owner |-> i, kind |-> "sock"]]
                /\ fdc' = [fdc EXCEPT ![i] = [IdleFdc EXCEPT !.pc = "protect", !.fd = n]]
           ELSE /\ fdc' = [fdc EXCEPT ![i] =
                             [IdleFdc EXCEPT !.pc = "done", !.res = "socket_err"]]
                /\ UNCHANGED fdTable
    /\ UNCHANGED <<dialerVars, lk, rot>>

\* mutant of AfterProtect: the result of Protect is not looked at
AfterProtectIgnored(c, ok) ==
    [c EXCEPT !.ops = Append(@, "protect"), !.protOk = ok, !.pc = "connect"]

\* fdConn, lines 270-273: d.Protect(fd) and the test of its result
AfterProtect(c, ok) ==
    IF ok THEN [c EXCEPT !.ops = Append(@, "protect"), !.protOk = TRUE, !.pc = "connect"]
    ELSE [c EXCEPT !.ops = Append(@, "protect"), !.pc = "close",
                   !.res = "protect_rejected"]

F_Protect(i, ok) ==
    /\ fdc[i].pc = "protect"
    /\ fdc' = [fdc EXCEPT ![i] = AfterProtect(@, ok)]
    /\ UNCHANGED <<dialerVars, lk, rot, fdTable>>

\* fdConn, lines 275-283: unix.Connect(fd, sa); it fails on a closed number
F_Connect(i, ok) ==
    /\ fdc[i].pc = "connect"
    /\ fdc' = [fdc EXCEPT ![i] =
                 IF ok /\ fdTable[fdc[i].fd].open
                 THEN [@ EXCEPT !.ops = Append(@, "connect"), !.pc = "newfile"]
                 ELSE [@ EXCEPT !.ops = Append(@, "connect"), !.pc = "close",
                                !.res = "connect_failed"]]
    /\ UNCHANGED <<dialerVars, lk, rot, fdTable>>

\* fdConn, lines 285-291: os.NewFile takes the number over; defer file.Close()
F_NewFile(i, valid) ==
    /\ fdc[i].pc = "newfile"
    /\ fdc' = [fdc EXCEPT ![i] =
                 IF valid THEN [@ EXCEPT !.file = TRUE, !.pc = "fileconn"]
                 ELSE [@ EXCEPT !.pc = "close", !.res = "newfile_invalid"]]
    /\ UNCHANGED <<dialerVars, lk, rot, fdTable>>

\* fdConn, lines 293-299: net.FileConn duplicates the descriptor for the conn
F_FileConn(i, ok) ==
    /\ fdc[i].pc = "fileconn"
    /\ LET n == LowestFree(fdTable)
       IN  IF ok /\ n # 0 /\ fdTable[fdc[i].fd].open
           THEN /\ fdTable' = [fdTable EXCEPT ![n] =
                                 [open |-> TRUE, owner |-> i, kind |-> "conn"]]
                /\ fdc' = [fdc EXCEPT ![i] =
                             [@ EXCEPT !.conn = n, !.res = "ok", !.pc = "fileclose"]]
           ELSE /\ fdc' = [fdc EXCEPT ![i] =
                             [@ EXCEPT !.res = "fileconn_err", !.pc = "fileclose"]]
                /\ UNCHANGED fdTable
    /\ UNCHANGED <<dialerVars, lk, rot>>

\* the deferred file.Close() of line 291: the file closes its number
FileClose(t, c, i) ==
    [t |-> CloseFd(t, c.fd),
     c |-> [c EXCEPT !.file = FALSE, !.hits = Append(@, Meets(t, c.fd, i)),
                     !.pc = "close"]]

F_FileClose(i) ==
    /\ fdc[i].pc = "fileclose"
    /\ LET after == FileClose(fdTable, fdc[i], i)
       IN  /\ fdTable' = after.t
           /\ fdc' = [fdc EXCEPT ![i] = after.c]
    /\ UNCHANGED <<dialerVars, lk, rot>>

\* the deferred unix.Close(fd) of line 267, last of all
F_Close(i) ==
    /\ fdc[i].pc = "close"
    /\ fdTable' = CloseFd(fdTable, fdc[i].fd)
    /\ fdc' = [fdc EXCEPT ![i] =
                 [@ EXCEPT !.hits = Append(@, Meets(fdTable, fdc[i].fd, i)),
                           !.pc = "done"]]
    /\ UNCHANGED <<dialerVars, lk, rot>>

\* Dial returns; a conn it returns is the caller's from here on
F_Return(i) ==
    /\ fdc[i].pc = "done"
    /\ fdc' = [fdc EXCEPT ![i] = IdleFdc]
    /\ fdTable' = [n \in DOMAIN fdTable |->
                     IF fdTable[n].open /\ fdTable[n].owner = i /\ fdTable[n].kind = "conn"
                     THEN [fdTable[n] EXCEPT !.owner = "caller"]
                     ELSE fdTable[n]]
    /\ UNCHANGED <<dialerVars, lk, rot>>

\* the caller closes a conn it was given
F_ConnClose(n) ==
    /\ fdTable[n].open /\ fdTable[n].owner = "caller"
    /\ fdTable' = CloseFd(fdTable, n)
    /\ UNCHANGED <<dialerVars, lk, rot, fdc>>

FdNext ==
    \/ \E i \in Dialers, ok \in BOOLEAN : F_GetFd(i, ok)
    \/ \E i \in Dialers, ok \in BOOLEAN : F_Protect(i, ok)
    \/ \E i \in Dialers, ok \in BOOLEAN : F_Connect(i, ok)
    \/ \E i \in Dialers, ok \in BOOLEAN : F_NewFile(i, ok)
    \/ \E i \in Dialers, ok \in BOOLEAN : F_FileConn(i, ok)
    \/ \E i \in Dialers : F_FileClose(i)
    \/ \E i \in Dialers : F_Close(i)
    \/ \E i \in Dialers : F_Return(i)
    \/ \E n \in 1..MaxFd : F_ConnClose(n)

FdSpec == FdInit /\ [][FdNext]_vars

(* ------------- the public operations called in any order ------------- *)
\* the goroutine that dials, and what the resolver answers, in AnyOrderSpec
OneDialer == {"d1"}
ShortAnswers == {a \in ResolverAnswers : Len(a.addrs) <= 1}

\* IsVServerReady, lines 95-97
IsVServerReady == vServer # NilEp

\* PrepareResolveChan, lines 99-101, called at any moment: also with no
\* PrepareDomain to follow, and while a PrepareDomain runs
PrepareResolveChanAnytime ==
    /\ Running
    /\ Len(chans) < MaxPrep
    /\ chans' = Append(chans, [closed |-> FALSE, by |-> "none"])
    /\ resolveChan' = Len(chans) + 1
    /\ UNCHANGED <<currentServer, preferIPv6, vServer, eps, panicked, pd,
                   dial, hist, lk, rot, fdTable, fdc>>

\* PrepareDomain, lines 162-167, called whenever no PrepareDomain runs, whether
\* or not PrepareResolveChan was called before it
PD_BeginAnytime(domainName, prefIPv6) ==
    /\ Running
    /\ pd.pc = "idle"
    /\ Len(eps) < MaxPrep
    /\ currentServer' = domainName
    /\ preferIPv6' = prefIPv6
    /\ pd' = [IdlePD EXCEPT !.pc = "loop", !.domainName = domainName,
                            !.maxRetry = RetryBound, !.deferCh = resolveChan]
    /\ UNCHANGED <<resolveChan, vServer, eps, chans, panicked, dial, hist,
                   lk, rot, fdTable, fdc>>

AnyOrderNext ==
    \/ PrepareResolveChanAnytime
    \/ \E a \in Addresses : PD_BeginAnytime(a, FALSE)
    \/ PD_Exhausted
    \/ \E ans \in ShortAnswers : PD_Attempt(ans)
    \/ PD_LogResult
    \/ PD_Cancelled
    \/ PD_Timeout
    \/ PD_Close
    \/ PD_Return
    \/ Cancel
    \/ \E i \in OneDialer, a \in Addresses : D_Begin(i, a)
    \/ \E i \in OneDialer, ok \in BOOLEAN : D_CheckServer(i, ok)
    \/ \E i \in OneDialer : D_Recv(i)
    \/ \E i \in OneDialer, ok \in BOOLEAN : D_Wake(i, ok)
    \/ \E i \in OneDialer : D_CurrentIP(i)
    \/ \E i \in OneDialer : D_Conn(i)
    \/ \E i \in OneDialer, o \in FdConnOutcomes : D_ConnDone(i, o)
    \/ \E i \in OneDialer, ans \in ShortAnswers, ok \in BOOLEAN, o \in FdConnOutcomes :
          D_Other(i, ans, ok, o)
    \/ \E i \in OneDialer : D_Return(i)

AnyOrderSpec == Init /\ [][AnyOrderNext]_vars

(* ============================== claims ================================ *)
Free(e) == eps[e].ipLock = ""
InRange(e) == 0 <= eps[e].ipIdx /\ eps[e].ipIdx < Len(eps[e].IPs)

\* dialer i leaves currentIP with the address it read
ReadsCurrent(i) == dial[i].pc = "cur" /\ dial'[i].pc = "conn"

\* dialer i goes through the call of NextIP on d.vServer
CallsNextIP(i) ==
    dial[i].pc = "pending" /\ dial'[i].pc \in {"wrap", "done"} /\ dial'[i].nRotate = 1

CursorInRange == \A e \in DOMAIN eps : Free(e) => InRange(e)

CurrentIPIsCursor ==
    \A i \in Dialers :
        ReadsCurrent(i) =>
            /\ InRange(vServer)
            /\ dial'[i].ip = eps[vServer].IPs[eps[vServer].ipIdx + 1]

\* C1: whenever r.ipLock is free the cursor satisfies 0 <= ipIdx < len(IPs), under
\* every interleaving of NextIP and currentIP calls, and currentIP returns IPs[ipIdx].
C1_CursorWithinList == [](CursorInRange) /\ [][CurrentIPIsCursor]_vars

\* a second switch has wrapped the cursor of a two-address list back to 0
C1_Witness ==
    \E e \in DOMAIN eps :
        /\ Free(e) /\ Len(eps[e].IPs) > 1
        /\ eps[e].ipIdx = 0 /\ eps[e].sinceSwitched = 0
        /\ \E i \in Dialers : dial[i].pc = "conn"

\* C2 as stated: a NextIP call less than 5 seconds after the previous NextIP call on
\* the endpoint leaves the cursor where it was, whether or not that previous call
\* switched.
C2_Original ==
    [][\A i \in Dialers :
          (CallsNextIP(i) /\ hist[vServer].call < ThrottleWindow)
              => eps'[vServer].ipIdx = eps[vServer].ipIdx]_vars

\* C2 amended: a NextIP call less than 5 seconds after the last NextIP call that
\* switched leaves ipIdx and lastSwitched as they were.
C2_ThrottleSinceSwitch ==
    [][\A i \in Dialers :
          (CallsNextIP(i) /\ hist[vServer].adv < ThrottleWindow)
              => /\ eps'[vServer].ipIdx = eps[vServer].ipIdx
                 /\ eps'[vServer].sinceSwitched = eps[vServer].sinceSwitched
                 /\ dial'[i].pc = "done"]_vars

\* a call has just been suppressed, one to four seconds after a switch
C2_Witness ==
    \E i \in Dialers :
        /\ dial[i].pc = "done" /\ dial[i].nRotate = 1
        /\ Len(eps[vServer].IPs) > 1
        /\ hist[vServer].call = 0
        /\ hist[vServer].adv \in 1..(ThrottleWindow - 1)
        /\ eps[vServer].ipIdx = 1

\* C3: PrepareDomain makes at most 10 attempts (attempts + maxRetry = 10 in the
\* loop); when every attempt failed and closeCh never fired it returns after exactly
\* 10 attempts, having closed the readiness channel once and stored no endpoint.
C3_ExhaustsAfterTen ==
    /\ pd.pc \in {"loop", "select"} => pd.attempts + pd.maxRetry = RetryBound
    /\ (pd.pc = "returned" /\ ~pd.stored /\ ~pd.closeCh) =>
          /\ pd.outcome = "exhausted"
          /\ pd.attempts = RetryBound
          /\ pd.fired = 1
          /\ chans[pd.deferCh].closed
          /\ (Len(chans) = 1 => vServer = NilEp /\ eps = <<>>)

C3_Witness ==
    /\ pd.pc = "returned" /\ pd.outcome = "exhausted" /\ ~pd.closeCh
    /\ pd.attempts = RetryBound /\ vServer = NilEp

PDRunning == pd.pc \in {"loop", "select", "stored", "exit"}

\* C4: in a PrepareResolveChan / PrepareDomain cycle the readiness channel is closed
\* exactly once, at the return of PrepareDomain and not before, on every exit; after
\* a successful exit the endpoint is stored when the channel is closed, so a Dial
\* that waited on that channel does not fail with "fail to prepare domain".
C4_SignalOnceAtEnd ==
    /\ PDRunning => pd.fired = 0 /\ ~chans[pd.deferCh].closed
    /\ pd.pc = "returned" =>
          /\ pd.fired = 1
          /\ pd.outcome \in {"success", "cancelled", "exhausted"}
          /\ chans[pd.deferCh] = [closed |-> TRUE, by |-> pd.outcome]
    /\ \A c \in DOMAIN chans :
          (chans[c].closed /\ chans[c].by = "success") => vServer # NilEp
    /\ \A i \in Dialers :
          (dial[i].pc = "done" /\ dial[i].res = "prepare_failed") =>
              /\ CanReceive(dial[i].ch)
              /\ chans[dial[i].ch].by # "success"

\* a Dial that waited through a successful preparation has connected
C4_Witness ==
    \E i \in Dialers :
        /\ dial[i].pc = "done" /\ dial[i].waited /\ dial[i].res = "ok"
        /\ chans[dial[i].ch].by = "success"

\* C5: once PrepareDomain has returned (and no new cycle has begun) no Dial is held
\* by the receive of line 224: every waiter's channel is closed, and so is the
\* channel of any Dial that reaches the receive afterwards.
C5_AllWaitersReleased ==
    pd.pc \in {"returned", "idle"} =>
        /\ resolveChan # NilChan => chans[resolveChan].closed
        /\ \A i \in Dialers : dial[i].pc = "blocked" => CanReceive(dial[i].ch)

\* both dialers were waiting when PrepareDomain returned
C5_Witness ==
    /\ pd.pc = "returned"
    /\ \A i \in Dialers : dial[i].pc = "blocked" /\ CanReceive(dial[i].ch)

(* --------------------- lookupAddr (LookupSpec) ------------------------ *)
LkDone == lk.pc = "out" /\ lk.out.ok
LkIn == lk.answer.addrs
LkOut == lk.out.rs.IPs
HasV4(ips) == \E k \in DOMAIN ips : To4(ips[k])
HasV6(ips) == \E k \in DOMAIN ips : ~To4(ips[k])

\* C6 as stated: with preferIPv6 false, a list of more than one entry that mixes
\* the families, in whatever order, comes out of lookupAddr with an IPv4 address
\* first.
C6_Original ==
    (LkDone /\ ~lk.pref /\ Len(LkIn) > 1 /\ HasV4(LkIn) /\ HasV6(LkIn))
        => To4(LkOut[1])

\* C6, what lookupAddr does: with preferIPv6 false and more than one entry, the
\* result starts with an IPv4 address exactly when the resolver's list starts or
\* ends with one (so it does when the IPv6 addresses come in front, as line 141
\* expects); a mixed list that starts and ends with IPv6 is returned as it is,
\* IPv6 first, against the purpose line 142 states.
C6_V4FirstWhenAtAnEnd ==
    (LkDone /\ ~lk.pref /\ Len(LkIn) > 1) =>
        /\ To4(LkOut[1]) <=> (To4(LkIn[1]) \/ To4(LkIn[Len(LkIn)]))
        /\ (~To4(LkIn[1]) /\ ~To4(LkIn[Len(LkIn)])) => LkOut = LkIn

\* three addresses, IPv6 in front and IPv4 last, have been put IPv4 first
C6_Witness ==
    /\ LkDone /\ ~lk.pref /\ Len(LkIn) = 3
    /\ ~To4(LkIn[1]) /\ ~To4(LkIn[2]) /\ To4(LkIn[3])
    /\ To4(LkOut[1])

SingleFamily(ips) == ~(HasV4(ips) /\ HasV6(ips))

\* C7: lookupAddr returns the resolver's list unchanged when preferIPv6 is set, or
\* the list holds one family, or fewer than two entries; whenever the result
\* differs from the resolver's list it is that list reversed.
C7_SameOrReversed ==
    LkDone =>
        /\ (lk.pref \/ SingleFamily(LkIn) \/ Len(LkIn) < 2) => LkOut = LkIn
        /\ LkOut # LkIn => LkOut = Reverse(LkIn)
        /\ (~lk.pref /\ ~To4(LkIn[1]) /\ To4(LkIn[Len(LkIn)])) => LkOut = Reverse(LkIn)

C7_Witness ==
    /\ LkDone /\ Len(LkIn) = 3 /\ LkOut # LkIn
    /\ LkOut = <<LkIn[3], LkIn[2], LkIn[1]>>

(* ------------------------------- Dial --------------------------------- *)
PastWait(i) == dial[i].waited /\ dial[i].pc \in {"cur", "conn", "pending", "wrap", "done"}

NoSocketWork(d) ==
    d.nSock = 0 /\ d.nProtect = 0 /\ d.nConnect = 0 /\ d.nRotate = 0 /\ d.target = <<>>

\* steps of dialer i at lines 222 and 224-230 while d.vServer is nil
WaitsWhenNil(i) ==
    (dial[i].pc = "chk" /\ dial'[i].pc # "chk" /\ vServer = NilEp)
        => dial'[i].pc = "recv"

FailsWhenStillNil(i) ==
    (dial[i].pc = "blocked" /\ dial'[i].pc # "blocked" /\ vServer = NilEp)
        => /\ dial'[i].pc = "done" /\ dial'[i].res = "prepare_failed"
           /\ eps' = eps /\ hist' = hist

\* C8: a Dial to currentServer that finds d.vServer nil waits on the readiness
\* channel and gets past the wait only once that channel is closed; if d.vServer is
\* still nil then, it returns "fail to prepare domain" having taken no descriptor,
\* called neither Protect nor Connect nor NextIP.
C8_WaitThenFail ==
    /\ [](\A i \in Dialers :
            /\ PastWait(i) => CanReceive(dial[i].ch)
            /\ (dial[i].pc = "done" /\ dial[i].res = "prepare_failed") =>
                  dial[i].waited /\ NoSocketWork(dial[i]))
    /\ [][\A i \in Dialers : WaitsWhenNil(i) /\ FailsWhenStillNil(i)]_vars

\* a Dial has come back with "fail to prepare domain" after a cancelled preparation
C8_Witness ==
    \E i \in Dialers :
        /\ dial[i].pc = "done" /\ dial[i].res = "prepare_failed"
        /\ chans[dial[i].ch].by = "cancelled"

DoneA(i) == dial[i].pc = "done" /\ dial[i].branch = "A"

\* dialer i's fdConn returns without error
ConnSucceeds(i) ==
    dial[i].pc = "pending" /\ dial'[i].pc = "done" /\ dial'[i].res = "ok"

\* dialer i enters fdConn
EntersFdConn(i) == dial[i].pc = "conn" /\ dial'[i].pc = "pending"

\* C9: a Dial to currentServer with an endpoint stored calls fdConn once, with the
\* address currentIP returned and the endpoint's port; a rejected protect or failed
\* connect is followed by exactly one NextIP call and the error is returned with no
\* second attempt; after a success NextIP is not called and ipIdx and lastSwitched
\* are as they were.
C9_OneAttemptThenRotate ==
    /\ [](\A i \in Dialers :
            /\ dial[i].nSock <= 1 /\ dial[i].nProtect <= 1 /\ dial[i].nConnect <= 1
            /\ dial[i].nRotate <= 1
            /\ (DoneA(i) /\ dial[i].res \notin {"prepare_failed", "socket_err"}) =>
                  /\ dial[i].nSock = 1 /\ dial[i].nProtect = 1
                  /\ dial[i].target[1] = dial[i].ip
                  /\ dial[i].ip # ""
            /\ (DoneA(i) /\ dial[i].res \in {"protect_rejected", "connect_failed"}) =>
                  dial[i].nRotate = 1
            /\ (DoneA(i) /\ dial[i].res = "protect_rejected") => dial[i].nConnect = 0
            /\ (DoneA(i) /\ dial[i].res = "ok") =>
                  dial[i].nRotate = 0 /\ dial[i].nConnect = 1)
    /\ [][\A i \in Dialers :
            /\ ReadsCurrent(i) =>
                  dial'[i].ip = eps[vServer].IPs[eps[vServer].ipIdx + 1]
            /\ EntersFdConn(i) =>
                  dial'[i].target = <<dial[i].ip, eps[vServer].Port>>
            /\ ConnSucceeds(i) => eps' = eps]_vars

\* a failed connect to the first address has moved the cursor to the second
C9_Witness ==
    \E i \in Dialers :
        /\ DoneA(i) /\ dial[i].res = "connect_failed" /\ dial[i].nRotate = 1
        /\ dial[i].target = <<eps[vServer].IPs[1], eps[vServer].Port>>
        /\ eps[vServer].ipIdx = 1 /\ eps[vServer].sinceSwitched = 0

OtherDest(i) == dial[i].pc = "idle" /\ dial'[i].pc # "idle" /\ dial'[i].dest # currentServer

StepsInB(i) == dial[i].branch = "B" /\ dial'[i] # dial[i]

\* C10: a Dial to an address other than currentServer resolves it anew (one
\* lookupAddr per call), never waits on the readiness channel, calls fdConn with the
\* first address and the port of that fresh result, never calls NextIP, and leaves
\* d.vServer and the endpoint (IPs, ipIdx, lastSwitched) untouched.
C10_OtherDestination ==
    /\ [](\A i \in Dialers :
            dial[i].branch = "B" =>
                /\ dial[i].pc \in {"lookup", "done"}
                /\ ~dial[i].waited /\ dial[i].ch = NilChan /\ dial[i].nRotate = 0
                /\ dial[i].pc = "lookup" => dial[i].nLookup = 0 /\ dial[i].fresh = NoFresh
                /\ dial[i].pc = "done" =>
                      /\ dial[i].nLookup = 1
                      /\ dial[i].res = "resolve_err" <=> dial[i].fresh = NoFresh
                      /\ dial[i].nConnect = 1 =>
                            dial[i].target = <<dial[i].fresh.IPs[1], dial[i].fresh.Port>>
                      /\ dial[i].fresh # NoFresh =>
                            dial[i].fresh.Port = PortOf(dial[i].dest))
    /\ [][\A i \in Dialers :
            /\ OtherDest(i) => dial'[i].branch = "B"
            /\ StepsInB(i) => eps' = eps /\ vServer' = vServer /\ hist' = hist]_vars

\* with an endpoint stored, a Dial elsewhere has connected to the first of two
\* freshly resolved addresses
C10_Witness ==
    \E i \in Dialers :
        /\ dial[i].pc = "done" /\ dial[i].branch = "B" /\ dial[i].res = "ok"
        /\ Len(dial[i].fresh.IPs) = 2 /\ dial[i].target[1] = dial[i].fresh.IPs[1]
        /\ vServer # NilEp /\ dial[i].dest # currentServer

(* ----------------------- PrepareDomain, once more --------------------- *)
\* a step of PrepareDomain's loop that is a resolution attempt
Attempts == pd'.attempts = pd.attempts + 1

\* C14: once closeCh is closed while PrepareDomain waits after a failed attempt (or
\* was closed before that attempt returned), the next step of PrepareDomain is the
\* return: no further lookup, no endpoint stored, and the readiness channel is
\* closed as it returns.
C14_CancelEndsPreparation ==
    /\ [][(pd.pc = "select" /\ pd.closeCh /\ pd' # pd) =>
             /\ pd'.pc = "exit" /\ pd'.outcome = "cancelled"
             /\ pd'.attempts = pd.attempts /\ ~pd'.stored
             /\ vServer' = vServer /\ Len(eps') = Len(eps)]_vars
    /\ [][(pd.outcome = "cancelled" /\ pd'.pc # "idle") =>
             /\ ~Attempts /\ pd'.outcome = "cancelled" /\ ~pd'.stored
             /\ vServer' = vServer /\ Len(eps') = Len(eps)]_vars
    /\ []((pd.pc = "returned" /\ pd.outcome = "cancelled") =>
             /\ ~pd.stored /\ pd.fired = 1
             /\ chans[pd.deferCh] = [closed |-> TRUE, by |-> "cancelled"])

\* cancelled during the wait after the third failed attempt: returned, channel closed
C14_Witness ==
    /\ pd.pc = "returned" /\ pd.outcome = "cancelled" /\ pd.attempts = 3
    /\ vServer = NilEp /\ chans[pd.deferCh].closed

\* C15: without cancellation, the attempt that first succeeds is attempt number
\* (failures so far) + 1 <= 10; the endpoint it returned is what d.vServer holds,
\* with ipIdx 0; no attempt follows it; no run makes more than 10 attempts.
C15_StopsAtFirstSuccess ==
    /\ [](pd.attempts <= RetryBound)
    /\ [][(pd.pc = "loop" /\ pd'.pc = "stored") =>
             /\ pd.attempts = RetryBound - pd.maxRetry
             /\ pd'.attempts = pd.attempts + 1
             /\ vServer' = Len(eps') /\ Len(eps') = Len(eps) + 1
             /\ eps'[vServer'].ipIdx = 0
             /\ \E ans \in ResolverAnswers :
                   LET got == lookupAddr(pd.domainName, preferIPv6, ans)
                   IN  got.ok /\ eps'[vServer'] = got.rs]_vars
    /\ [][pd.stored => (~Attempts /\ vServer' = vServer)]_vars

\* the tenth attempt was the first to succeed
C15_Witness ==
    /\ pd.pc = "stored" /\ pd.attempts = RetryBound /\ ~pd.closeCh
    /\ vServer = Len(eps) /\ eps[vServer].ipIdx = 0 /\ Len(eps[vServer].IPs) = 2

(* -------------------------- bursts of failures ------------------------ *)
\* dialer i's NextIP call switches
SwitchesNow(i) == CallsNextIP(i) /\ eps'[vServer] # eps[vServer]

\* C17: NextIP calls of concurrent Dials are serialised by r.ipLock, and a call
\* switches only when 5 seconds have passed since the last call, of any Dial, that
\* switched; so the calls of a burst shorter than 5 seconds move ipIdx at most once.
C17_OneSwitchPerBurst ==
    /\ [](\A e \in DOMAIN eps :
            Cardinality({i \in Dialers : dial[i].pc = "wrap" /\ dial[i].r = e}) <= 1)
    /\ [][\A i \in Dialers :
            SwitchesNow(i) =>
                /\ hist[vServer].adv = ThrottleWindow
                /\ eps[vServer].ipLock = ""
                /\ hist'[vServer].adv = 0]_vars

\* two Dials failed in the same second: one switched, the other, still in NextIP's
\* second, was held back
C17_Witness ==
    \E i, j \in Dialers :
        /\ i # j
        /\ dial[i].pc = "done" /\ dial[i].nRotate = 1 /\ dial[i].r = NilEp
        /\ dial[j].pc = "pending"
        /\ hist[vServer].adv = 0 /\ hist[vServer].call = 0
        /\ eps[vServer].ipIdx = 1

(* ------------------------ rotation (RotSpec) -------------------------- *)
RotLen == Len(rot.r.IPs)

\* the step is a NextIP call
RotCall == rot.pc = "failed" /\ rot'.pc = "idle"

\* C16 as stated: NextIP on a list of n <= 1 addresses changes nothing; on n >= 2
\* addresses, 5 seconds or more after lastSwitched (or on a fresh endpoint), it
\* moves ipIdx from k to (k + 1) mod n and sets lastSwitched to now.
C16_Original ==
    [][RotCall =>
          IF RotLen <= 1 THEN rot'.r = rot.r
          ELSE ~Throttled(rot.r) =>
                  /\ rot'.r.ipIdx = (rot.r.ipIdx + 1) % RotLen
                  /\ rot'.r.sinceSwitched = 0]_vars

\* C16, what NextIP does: the statement above holds for lists of up to 255
\* addresses, the range of the uint8 cursor.
C16_UpTo255 ==
    [][(RotCall /\ RotLen < Uint8) =>
          IF RotLen <= 1 THEN rot'.r = rot.r
          ELSE ~Throttled(rot.r) =>
                  /\ rot'.r.ipIdx = (rot.r.ipIdx + 1) % RotLen
                  /\ rot'.r.sinceSwitched = 0]_vars

\* C12 as stated: when connects to one of the endpoint's addresses succeed and the
\* caller keeps retrying while time passes, a Dial eventually connects.
C12_Original == <>(rot.good = 0 \/ rot.pc = "connected")

\* C12, what the retries reach: with up to 255 addresses a Dial eventually
\* connects.
C12_UpTo255 == <>(rot.good = 0 \/ RotLen >= Uint8 \/ rot.pc = "connected")

(* --------------------- getFd and fdConn (FdSpec) ---------------------- *)
\* the calls fdConn has made on its descriptor so far are a start of Protect, Connect
InOrder(c) == c.ops \in {<<>>, <<"protect">>, <<"protect", "connect">>}

\* C11: in every execution of fdConn, Protect(fd) comes before unix.Connect(fd, ..),
\* Connect is called only after Protect returned true, and a false Protect ends the
\* call with "fail to protect" and no Connect.
C11_ProtectBeforeConnect ==
    \A i \in DOMAIN fdc :
        /\ InOrder(fdc[i])
        /\ Len(fdc[i].ops) = 2 => fdc[i].protOk
        /\ fdc[i].pc \in {"connect", "newfile", "fileconn", "fileclose"} => fdc[i].protOk
        /\ fdc[i].res = "protect_rejected" =>
              fdc[i].ops = <<"protect">> /\ ~fdc[i].protOk /\ fdc[i].conn = 0
        /\ (fdc[i].pc = "done" /\ fdc[i].res # "socket_err") => Len(fdc[i].ops) >= 1

\* one call was refused by Protect and has returned, another has gone on to Connect
C11_Witness ==
    \E i, j \in DOMAIN fdc :
        /\ fdc[i].pc = "done" /\ fdc[i].res = "protect_rejected"
        /\ fdc[j].ops = <<"protect", "connect">>

\* C18 as stated: a Dial that got a descriptor from getFd closes it exactly once
\* before it returns, on every path of fdConn, and issues no close on the number
\* once it has released it (so never on a descriptor that is not its own).
C18_Original ==
    \A i \in DOMAIN fdc :
        (fdc[i].pc = "done" /\ fdc[i].fd # 0) => fdc[i].hits = <<"own">>

\* C18, what holds: the descriptor is not leaked; fdConn closes the number once on
\* the paths that end before os.NewFile succeeded, and twice after it.
C18_NoLeakButTwice ==
    \A i \in DOMAIN fdc :
        (fdc[i].pc = "done" /\ fdc[i].fd # 0) =>
            /\ Meets(fdTable, fdc[i].fd, i) # "own"
            /\ Len(fdc[i].hits) =
                  IF fdc[i].res \in {"ok", "fileconn_err"} THEN 2 ELSE 1

\* the second close of a successful call has closed the socket another Dial had
\* just been given under the same number
C18_ClosesAnothers ==
    \E i \in DOMAIN fdc :
        fdc[i].pc = "done" /\ fdc[i].res = "ok" /\ fdc[i].hits = <<"own", "other">>

(* ------------- operations in any order (AnyOrderSpec) ----------------- *)
\* C13 as stated: whatever the order of PrepareResolveChan, PrepareDomain,
\* ResolveChan, IsVServerReady and Dial calls, the process is not aborted: the
\* readiness channel is never closed when it is nil or already closed.
C13_Original == ~panicked

\* C13, what holds: PrepareDomain closes the channel it found at line 166 when it
\* is there and open; otherwise the close panics.
C13_PanicsOnlyOnBadClose == panicked => (pd.pc = "exit" /\ ~CanClose(pd.deferCh))

\* a second PrepareDomain after one PrepareResolveChan has closed the channel again
C13_ClosedTwice ==
    panicked /\ pd.deferCh # NilChan /\ chans[pd.deferCh].closed

\* C19 as stated: while a PrepareDomain for the current address has not yet stored
\* its result, IsVServerReady is false; and a Dial to d.currentServer connects only
\* to an endpoint resolved from that address (here: with that address's port).
C19_Original ==
    /\ (PDRunning /\ ~pd.stored) => ~IsVServerReady
    /\ \A i \in Dialers :
          (dial[i].branch = "A" /\ dial[i].target # <<>>) =>
              dial[i].target[2] = PortOf(dial[i].dest)

\* a Dial to the newly prepared "cdn:80" is on its way to the endpoint of "proxy:443"
C19_StaleEndpointUsed ==
    \E i \in Dialers :
        /\ dial[i].branch = "A" /\ dial[i].dest = "cdn:80"
        /\ dial[i].target # <<>> /\ dial[i].target[2] = PortOf("proxy:443")

\* C20 as stated: when PrepareResolveChan was called while PrepareDomain ran, the
\* channel PrepareDomain closes as it returns is the one the Dials are waiting on:
\* at its return no Dial is held by an open channel.
C20_Original ==
    (pd.pc = "returned" /\ pd.deferCh # NilChan /\ resolveChan # pd.deferCh) =>
        \A i \in Dialers :
            (dial[i].pc = "blocked" /\ dial[i].ch # NilChan) => CanReceive(dial[i].ch)

\* C20, what holds: PrepareDomain closes the channel d.resolveChan held when the
\* defer statement ran, whatever d.resolveChan holds by the time it returns.
C20_ClosesChannelOfEntry ==
    pd.pc = "returned" => chans[pd.deferCh] = [closed |-> TRUE, by |-> pd.outcome]

====
